---- MODULE Spec2Model ----
(***************************************************************************)
(* Model of the Debit Note converter: the transformation pipeline          *)
(* (data_processor.py), the column validation (utils.py), the              *)
(* reconciliation functions (data_verifier.py) and the Streamlit host's    *)
(* session state (app.py).                                                 *)
(*                                                                         *)
(* Representation.                                                         *)
(*  - A text cell is a sequence of one-character strings.  Characters that *)
(*    are not ASCII are written as tokens: "RUPEE" is U+20B9; "A_CIRC",    *)
(*    "LOW9", "SUP1" are U+00E2, U+201A, U+00B9 (the three characters of   *)
(*    the literal on data_processor.py line 14).                           *)
(*  - A numeric cell is <<n>>, a missing one (NaN) is <<>>.  Numbers are   *)
(*    decimal fixed point: Age in days, currency in 1/100, the daily rate  *)
(*    in 1/100 percent, 'interest amount' in 1/10000.                      *)
(*  - binary64 arithmetic is exact on these grids except where a decimal   *)
(*    value lies exactly on a rounding tie or on a comparison threshold:   *)
(*    there the representation error of the operands decides, and the      *)
(*    model keeps both outcomes.  Both occur in binary64, e.g.             *)
(*      0.75 * ((5 * 0.06) / 100)  rounds to 0.0023 (tie 0.00225, up),     *)
(*      1.25 * ((3 * 0.06) / 100)  rounds to 0.0022 (tie 0.00225, down),   *)
(*      abs(100.01 - 100.0) > 0.01 is True, abs(0.02 - 0.01) > 0.01 False. *)
(*  - DataFrame.sort_values is called with its default kind ("quicksort"), *)
(*    which does not promise the order of equal keys: the model keeps      *)
(*    every ascending order.                                               *)
(***************************************************************************)
EXTENDS Integers, Sequences, FiniteSets, TLC

VARIABLES
    pc,            \* which call is in progress: "idle", "process_excel", ...
    df,            \* process_excel: the raw table passed in
    config,        \* process_excel: [due_days, daily_rate, working_days, ob_age]
    result,        \* what the call returned
    processed_df,  \* data_verifier: the processed table passed in
    expected_df,   \* data_verifier: the expected table passed in
    session_state, \* app.py: st.session_state
    shown          \* app.py: what the last run of the processing tab displayed

vars == <<pc, df, config, result, processed_df, expected_df, session_state, shown>>

-----------------------------------------------------------------------------
(* Text                                                                    *)

Digits == <<"0", "1", "2", "3", "4", "5", "6", "7", "8", "9">>

DigitChars == {Digits[i] : i \in 1..10}

DigitVal(c) == (CHOOSE i \in 1..10 : Digits[i] = c) - 1

\* str.replace(old, new, regex=False): leftmost, non-overlapping occurrences
RECURSIVE StrReplace(_, _, _)
StrReplace(s, old, new) ==
    IF Len(s) < Len(old) \/ Len(old) = 0 THEN s
    ELSE IF SubSeq(s, 1, Len(old)) = old
         THEN new \o StrReplace(SubSeq(s, Len(old) + 1, Len(s)), old, new)
         ELSE <<Head(s)>> \o StrReplace(Tail(s), old, new)

RECURSIVE StripLeft(_)
StripLeft(s) == IF s # <<>> /\ Head(s) = " " THEN StripLeft(Tail(s)) ELSE s

RECURSIVE StripRight(_)
StripRight(s) ==
    IF s # <<>> /\ s[Len(s)] = " " THEN StripRight(SubSeq(s, 1, Len(s) - 1)) ELSE s

\* str.strip()
StrStrip(s) == StripRight(StripLeft(s))

-----------------------------------------------------------------------------
(* Numbers                                                                 *)

NaN == <<>>

Num(n) == <<n>>

IsNum(v) == v # NaN

Val(v) == v[1]

RECURSIVE Pow10(_)
Pow10(k) == IF k = 0 THEN 1 ELSE 10 * Pow10(k - 1)

AllDigits(s) == \A i \in 1..Len(s) : s[i] \in DigitChars

RECURSIVE DigitsValue(_)
DigitsValue(s) ==
    IF s = <<>> THEN 0 ELSE 10 * DigitsValue(SubSeq(s, 1, Len(s) - 1)) + DigitVal(s[Len(s)])

DotAt(s) == IF \E i \in 1..Len(s) : s[i] = "." THEN CHOOSE i \in 1..Len(s) : s[i] = "." ELSE 0

\* the unsigned decimal literals  d+ | d+ . d* | . d+  whose value is on the
\* grid 10^-scale, as a number of grid units; anything else is NaN
ParseUnsigned(s, scale) ==
    LET dot  == DotAt(s)
        ip   == IF dot = 0 THEN s ELSE SubSeq(s, 1, dot - 1)
        fp   == IF dot = 0 THEN <<>> ELSE SubSeq(s, dot + 1, Len(s))
        kept == SubSeq(fp, 1, IF Len(fp) < scale THEN Len(fp) ELSE scale)
        rest == SubSeq(fp, scale + 1, Len(fp))
    IN  IF /\ AllDigits(ip) /\ AllDigits(fp) /\ Len(ip) + Len(fp) > 0
           /\ \A i \in 1..Len(rest) : rest[i] = "0"
        THEN Num(DigitsValue(ip) * Pow10(scale)
                 + DigitsValue(kept) * Pow10(scale - Len(kept)))
        ELSE NaN

\* pd.to_numeric(text, errors="coerce") on one cell
to_numeric(s, scale) ==
    IF s # <<>> /\ Head(s) = "-"
    THEN LET u == ParseUnsigned(Tail(s), scale) IN IF IsNum(u) THEN Num(0 - Val(u)) ELSE NaN
    ELSE ParseUnsigned(s, scale)

-----------------------------------------------------------------------------
(* config.py                                                               *)

DEFAULT_DUE_DAYS_THRESHOLD == 150

\* 0.06 percent per day, in 1/100 percent
DEFAULT_PER_DAY_INTEREST_RATE == 6

DEFAULT_INTEREST_WORKING_DAYS == 31

DEFAULT_OPENING_BALANCE_AGE == 300

COLUMNS_TO_DROP == <<"Sales person", "Sale Person">>

FINAL_COLUMNS ==
    <<"Region", "Area Name", "Market", "Customer Name", "Customer Number", "DATE",
      "Transaction#", "Type", "Status", "Due Date", "Amount", "Balance Due", "Age",
      "Due days", "Previous interst", "interst working", "per day interst%",
      "working interst in %", "interest amount">>

REQUIRED_INPUT_COLUMNS ==
    <<"Region", "Area Name", "Market", "Customer Name", "Customer Number", "DATE",
      "Transaction#", "Type", "Status", "Due Date", "Amount", "Balance Due", "Age">>

-----------------------------------------------------------------------------
(* DataFrame: [columns |-> sequence of names, rows |-> sequence of rows];  *)
(* a row maps the names of the columns the model follows to their cells.   *)

Range(s) == {s[i] : i \in 1..Len(s)}

\* the columns whose cells the model follows; the cells of the other
\* columns are carried along untouched by every step
CellColumns ==
    {"Status", "Type", "Customer Name", "Transaction#", "Amount", "Balance Due", "Age",
     "Due days", "Previous interst", "interst working", "per day interst%",
     "working interst in %", "interest amount"}

\* df[mask]
FilterRows(t, Keep(_)) == [t EXCEPT !.rows = SelectSeq(t.rows, Keep)]

\* df.drop(columns=[col for col in names if col in df.columns])
DropColumns(t, names) ==
    LET gone == Range(names)
        NotDropped(c) == c \notin gone
    IN  [columns |-> SelectSeq(t.columns, NotDropped),
         rows    |-> [i \in 1..Len(t.rows) |->
                        [c \in DOMAIN t.rows[i] \ gone |-> t.rows[i][c]]]]

\* df[col] = values: an existing column keeps its place, a new one is appended
Assign(t, col, Value(_)) ==
    [columns |-> IF col \in Range(t.columns) THEN t.columns ELSE Append(t.columns, col),
     rows    |-> [i \in 1..Len(t.rows) |->
                    [c \in DOMAIN t.rows[i] \cup {col} |->
                        IF c = col THEN Value(t.rows[i]) ELSE t.rows[i][c]]]]

\* mutant of Project: the table is returned without the projection
ProjectNothing(t, names) == t

\* df[names]
Project(t, names) ==
    [columns |-> names,
     rows    |-> [i \in 1..Len(t.rows) |->
                    [c \in DOMAIN t.rows[i] \cap Range(names) |-> t.rows[i][c]]]]

-----------------------------------------------------------------------------
(* data_processor.py                                                       *)

\* the literal of line 14: U+00E2 U+201A U+00B9
RupeeLiteral == <<"A_CIRC", "LOW9", "SUP1">>

DaysLiteral == <<" ", "D", "a", "y", "s">>

Overdue == <<"O", "v", "e", "r", "d", "u", "e">>

OpeningBalance ==
    <<"C", "u", "s", "t", "o", "m", "e", "r", " ", "O", "p", "e", "n", "i", "n", "g",
      " ", "B", "a", "l", "a", "n", "c", "e">>

\* one cell of clean_currency_column, in 1/100
clean_currency_column(cell) ==
    to_numeric(StrStrip(StrReplace(StrReplace(cell, RupeeLiteral, <<>>), <<",">>, <<>>)), 2)

\* one cell of clean_age_column, in days
clean_age_column(cell) == to_numeric(StrStrip(StrReplace(cell, DaysLiteral, <<>>)), 0)

fillna(v, d) == IF IsNum(v) THEN v ELSE Num(d)

\* mutant of Gt: the threshold itself passes
GtOrEqual(v, n) == IsNum(v) /\ Val(v) >= n

\* series > scalar: NaN compares False
Gt(v, n) == IsNum(v) /\ Val(v) > n

\* NaN propagates through arithmetic
Sub(v, n) == IF IsNum(v) THEN Num(Val(v) - n) ELSE NaN

SubV(v, w) == IF IsNum(v) /\ IsNum(w) THEN Num(Val(v) - Val(w)) ELSE NaN

Mul(v, n) == IF IsNum(v) THEN Num(Val(v) * n) ELSE NaN

MulV(v, w) == IF IsNum(v) /\ IsNum(w) THEN Num(Val(v) * Val(w)) ELSE NaN

\* series.clip(lower=n)
ClipLower(v, n) == IF IsNum(v) /\ Val(v) < n THEN Num(n) ELSE v

\* mutant of RoundOutcomes: truncation instead of rounding
RoundDown(x, unit) == {x \div unit}

\* the multiples of unit nearest to x (x and unit on the same grid); a tie
\* keeps both neighbours
RoundOutcomes(x, unit) ==
    LET q == x \div unit
        r == x % unit
    IN  IF 2 * r < unit THEN {q}
        ELSE IF 2 * r > unit THEN {q + 1}
        ELSE {q, q + 1}

\* code points of the characters customer names are written with
CodePoint(c) ==
    CASE c = " " -> 32
      [] c = "A" -> 65
      [] c = "B" -> 66
      [] c = "X" -> 88
      [] c = "a" -> 97
      [] c = "b" -> 98
      [] c = "|" -> 124

\* str < str
RECURSIVE StrLess(_, _)
StrLess(a, b) ==
    IF b = <<>> THEN FALSE
    ELSE IF a = <<>> THEN TRUE
    ELSE IF Head(a) = Head(b) THEN StrLess(Tail(a), Tail(b))
    ELSE CodePoint(Head(a)) < CodePoint(Head(b))

\* a cell that holds an integer, not a text: the token "INT" and its digits
IntCell(digits) == <<"INT">> \o digits

IsIntCell(cell) == cell # <<>> /\ Head(cell) = "INT"

\* a < b for two cells of one kind
Less(a, b) ==
    IF IsIntCell(a) /\ IsIntCell(b) THEN DigitsValue(Tail(a)) < DigitsValue(Tail(b))
    ELSE StrLess(a, b)

TypeError == [kind |-> "TypeError"]

\* the sort compares a text with an integer ('<' not supported between
\* instances of 'str' and 'int'): any sort of a column that holds both does
SortRaises(t, col) ==
    \E i, j \in 1..Len(t.rows) : IsIntCell(t.rows[i][col]) # IsIntCell(t.rows[j][col])

Orders(n) == {p \in [1..n -> 1..n] : \A i, j \in 1..n : p[i] = p[j] => i = j}

\* mutant of sort_values: the rows are left in their order
sort_values_skipped(t, col) == {t}

\* df.sort_values(col).reset_index(drop=True): every ascending order of the rows
sort_values(t, col) ==
    LET n == Len(t.rows)
    IN  {[t EXCEPT !.rows = [i \in 1..n |-> t.rows[p[i]]]] :
            p \in {q \in Orders(n) :
                     \A i, j \in 1..n :
                        i < j => ~Less(t.rows[q[j]][col], t.rows[q[i]][col])}}

RECURSIVE SeqProduct(_)
SeqProduct(sets) ==
    IF sets = <<>> THEN {<<>>}
    ELSE {<<h>> \o tl : h \in Head(sets), tl \in SeqProduct(Tail(sets))}

KeyError == [kind |-> "KeyError"]

\* line 45: df["Status"] == "Overdue"
IsOverdue(r) == r["Status"] = Overdue

\* lines 53-55
BalanceDue(r) == fillna(clean_currency_column(r["Balance Due"]), 0)

\* line 58
Amount(r) == clean_currency_column(r["Amount"])

\* mutant of OpeningBalanceAge: only a missing Age is overridden
OpeningBalanceAgeIfMissing(r, ob_age) ==
    IF r["Type"] = OpeningBalance /\ ~IsNum(r["Age"]) THEN Num(ob_age) ELSE r["Age"]

\* line 64: the Age of a row after the opening-balance override
OpeningBalanceAge(r, ob_age) == IF r["Type"] = OpeningBalance THEN Num(ob_age) ELSE r["Age"]

\* line 67
IsDue(r, due_days) == Gt(r["Age"], due_days)

\* lines 44-67: the table before it is sorted
FilteredUnsorted(raw, due_days, ob_age) ==
    LET f1 == FilterRows(raw, IsOverdue)
        f2 == DropColumns(f1, COLUMNS_TO_DROP)
        f3 == Assign(f2, "Balance Due", BalanceDue)
        f4 == Assign(f3, "Amount", Amount)
        Age(r) == clean_age_column(r["Age"])
        f5 == Assign(f4, "Age", Age)
        ObAge(r) == OpeningBalanceAge(r, ob_age)
        f6 == Assign(f5, "Age", ObAge)
        Due(r) == IsDue(r, due_days)
    IN  FilterRows(f6, Due)

\* mutant of InterestWorking: the days are capped at working_days
InterestWorkingCapped(r, due_days, working_days) ==
    LET days == Sub(r["Age"], due_days)
    IN  IF IsNum(days) /\ Val(days) > working_days THEN Num(working_days) ELSE days

\* line 77
InterestWorking(r, due_days, working_days) == Sub(r["Age"], due_days)

\* mutant of PreviousInterest: the working days are not subtracted
PreviousInterestOfAge(r, due_days) == ClipLower(Sub(r["Age"], due_days), 0)

\* lines 82-84
PreviousInterest(r, due_days) ==
    ClipLower(SubV(Sub(r["Age"], due_days), r["interst working"]), 0)

\* line 91, in 1/100 percent
WorkingPercent(r, daily_rate) == Mul(r["interst working"], daily_rate)

\* lines 95-97: Balance Due (1/100) * (percent (1/100) / 100), in 1/1000000
InterestAmount(r) == MulV(r["Balance Due"], r["working interst in %"])

\* lines 72-97 on the sorted table, before the rounding of line 100
Derived(sorted, due_days, daily_rate, working_days) ==
    LET DueDays(r) == Num(due_days)
        d1 == Assign(sorted, "Due days", DueDays)
        Working(r) == InterestWorking(r, due_days, working_days)
        d2 == Assign(d1, "interst working", Working)
        Previous(r) == PreviousInterest(r, due_days)
        d3 == Assign(d2, "Previous interst", Previous)
        Rate(r) == Num(daily_rate)
        d4 == Assign(d3, "per day interst%", Rate)
        Percent(r) == WorkingPercent(r, daily_rate)
        d5 == Assign(d4, "working interst in %", Percent)
    IN  Assign(d5, "interest amount", InterestAmount)

\* line 100: series.round(4), from 1/1000000 to 1/10000
Rounded(t) ==
    LET n == Len(t.rows)
        choices == SeqProduct([i \in 1..n |->
                       RoundOutcomes(Val(t.rows[i]["interest amount"]), 100)])
    IN  {[t EXCEPT !.rows = [i \in 1..n |->
                [t.rows[i] EXCEPT !["interest amount"] = Num(c[i])]]] : c \in choices}

\* the columns process_excel reads by name before line 103
ReadColumns == {"Status", "Balance Due", "Amount", "Age", "Type", "Customer Name"}

\* every table process_excel(df, due_days, daily_rate, working_days, ob_age) can return
process_excel(raw, due_days, daily_rate, working_days, ob_age) ==
    IF ~(ReadColumns \subseteq Range(raw.columns)) THEN {KeyError}
    ELSE LET unsorted == FilteredUnsorted(raw, due_days, ob_age)
         IN  IF SortRaises(unsorted, "Customer Name") THEN {TypeError}
             ELSE UNION {
                    {IF Range(FINAL_COLUMNS) \subseteq Range(t.columns)
                     THEN [kind |-> "ok", table |-> Project(t, FINAL_COLUMNS)]
                     ELSE KeyError :
                        t \in Rounded(Derived(sorted, due_days, daily_rate, working_days))} :
                    sorted \in sort_values(unsorted, "Customer Name")}

-----------------------------------------------------------------------------
(* The raw tables and configurations process_excel is called with          *)

MaxRows == 2

InvoiceText == <<"I", "n", "v", "o", "i", "c", "e">>

Age260 == <<"2", "6", "0", " ", "D", "a", "y", "s">>

Balance10000 == <<"1", "0", "0", "0", "0">>

BaseRow ==
    [c \in {"Status", "Type", "Customer Name", "Transaction#", "Amount", "Balance Due",
            "Age"} |->
        CASE c = "Status"        -> Overdue
          [] c = "Type"          -> InvoiceText
          [] c = "Customer Name" -> <<"A">>
          [] c = "Transaction#"  -> <<"T", "1">>
          [] c = "Amount"        -> <<"5", "0", "0">>
          [] c = "Balance Due"   -> Balance10000
          [] c = "Age"           -> Age260]

With(r, col, v) == [r EXCEPT ![col] = v]

StatusTexts == {<<"P", "a", "i", "d">>, <<"O", "v", "e", "r", "d", "u", "e", " ">>}

AgeTexts == {<<"1", "5", "5", " ", "D", "a", "y", "s">>, <<"1", "5", "0", " ", "D", "a", "y", "s">>,
             <<" ", "1", "8", "1", " ", "D", "a", "y", "s", " ">>, <<"n", "/", "a">>}

BalanceTexts == {<<"RUPEE", "1", "0", ",", "0", "0", "0">>,
                 <<"A_CIRC", "LOW9", "SUP1", "1", "0", ",", "0", "0", "0">>,
                 <<"1", ".", "2", "5">>, <<"n", "a", "n">>}

NameTexts == {<<"A">>, <<"B">>, <<"a">>}

RawRowKinds ==
    {BaseRow}
    \cup {With(BaseRow, "Status", s) : s \in StatusTexts}
    \cup {With(BaseRow, "Age", a) : a \in AgeTexts}
    \cup {With(With(BaseRow, "Type", OpeningBalance), "Age", a) :
            a \in {Age260, <<"n", "/", "a">>}}
    \cup {With(BaseRow, "Type", <<"O", "p", "e", "n", "i", "n", "g">>)}
    \cup {With(BaseRow, "Balance Due", b) : b \in BalanceTexts}
    \cup {With(With(BaseRow, "Balance Due", b), "Age", <<"1", "5", "5">>) :
            b \in {<<"0", ".", "7", "5">>, <<"0", ".", "3", "3">>}}
    \cup {With(With(BaseRow, "Customer Name", n), "Transaction#", <<"T", k>>) :
            n \in NameTexts, k \in {"1", "2"}}
    \cup {With(BaseRow, "Customer Name", IntCell(<<"1", "2">>)),
          With(With(BaseRow, "Customer Name", IntCell(<<"9">>)), "Status", <<"P", "a", "i", "d">>)}

Config(due_days, daily_rate, working_days, ob_age) ==
    [due_days |-> due_days, daily_rate |-> daily_rate, working_days |-> working_days,
     ob_age |-> ob_age]

DefaultConfig ==
    Config(DEFAULT_DUE_DAYS_THRESHOLD, DEFAULT_PER_DAY_INTEREST_RATE,
           DEFAULT_INTEREST_WORKING_DAYS, DEFAULT_OPENING_BALANCE_AGE)

\* within the ranges of the sidebar's number inputs (app.py lines 34-68)
Configs ==
    {DefaultConfig,
     Config(150, 6, 5, 300),
     Config(260, 10, 31, 150),
     Config(154, 2, 31, 500)}

Reverse(s) == [i \in 1..Len(s) |-> s[Len(s) + 1 - i]]

Without(s, gone) == LET Keep(c) == c \notin gone IN SelectSeq(s, Keep)

ColumnLayouts ==
    {REQUIRED_INPUT_COLUMNS,
     Reverse(REQUIRED_INPUT_COLUMNS),
     REQUIRED_INPUT_COLUMNS \o <<"Sales person", "Notes">>,
     <<"Notes", "interest amount">> \o Reverse(REQUIRED_INPUT_COLUMNS) \o <<"Sale Person">>,
     Without(REQUIRED_INPUT_COLUMNS, {"Age"}),
     Without(REQUIRED_INPUT_COLUMNS, {"Status", "Region"}),
     Without(REQUIRED_INPUT_COLUMNS, {"Region"}) \o <<"Notes">>}

\* a table with the given columns: the rows keep the cells of those columns
MakeTable(columns, rows) ==
    [columns |-> columns,
     rows    |-> [i \in 1..Len(rows) |->
                    [c \in DOMAIN rows[i] \cap Range(columns) |-> rows[i][c]]]]

RowSeqs(kinds, n) == UNION {[1..k -> kinds] : k \in 0..n}

\* tables that differ in their columns
LayoutTables ==
    {MakeTable(cols, rows) :
        cols \in ColumnLayouts,
        rows \in {<<>>, <<BaseRow>>,
                  <<With(BaseRow, "Customer Name", <<"B">>), BaseRow>>}}

RawTables ==
    {MakeTable(REQUIRED_INPUT_COLUMNS, rows) : rows \in RowSeqs(RawRowKinds, MaxRows)}
    \cup LayoutTables

EmptyTable == MakeTable(REQUIRED_INPUT_COLUMNS, <<>>)

NoResult == [kind |-> "none"]

\* st.session_state without "processed_data"
NoSession == [kind |-> "absent"]

NothingShown == [kind |-> "info"]

-----------------------------------------------------------------------------
(* Calls of process_excel                                                  *)

InitTransform ==
    /\ pc = "idle"
    /\ df = EmptyTable
    /\ config = DefaultConfig
    /\ result = NoResult
    /\ processed_df = EmptyTable
    /\ expected_df = EmptyTable
    /\ session_state = NoSession
    /\ shown = NothingShown

CallProcessExcel ==
    /\ pc = "idle"
    /\ \E raw \in RawTables, cfg \in Configs :
         /\ df' = raw
         /\ config' = cfg
         /\ result' \in process_excel(raw, cfg.due_days, cfg.daily_rate,
                                      cfg.working_days, cfg.ob_age)
    /\ pc' = "process_excel"
    /\ UNCHANGED <<processed_df, expected_df, session_state, shown>>

Return ==
    /\ pc # "idle"
    /\ pc' = "idle"
    /\ df' = EmptyTable
    /\ config' = DefaultConfig
    /\ result' = NoResult
    /\ UNCHANGED <<processed_df, expected_df, session_state, shown>>

NextTransform == CallProcessExcel \/ Return

SpecTransform == InitTransform /\ [][NextTransform]_vars

-----------------------------------------------------------------------------
(* Claims about process_excel (checked under SpecTransform)                *)

Returned == pc = "process_excel" /\ result.kind = "ok"

OutRows == result.table.rows

RawCellColumns ==
    {"Status", "Type", "Customer Name", "Transaction#", "Amount", "Balance Due", "Age"}

\* the table of lines 44-67 for the call in progress
Intermediate == FilteredUnsorted(df, config.due_days, config.ob_age)

\* C1: every row of the returned table has Status "Overdue" and a
\* non-missing Age strictly greater than due_days.
C1_OverdueAndDue ==
    Returned =>
        \A i \in 1..Len(OutRows) :
            /\ OutRows[i]["Status"] = Overdue
            /\ IsNum(OutRows[i]["Age"])
            /\ Val(OutRows[i]["Age"]) > config.due_days

\* a call that dropped an Overdue invoice whose Age text does not parse and
\* kept another row
C1_Witness ==
    /\ Returned
    /\ Len(OutRows) > 0
    /\ \E i \in 1..Len(df.rows) :
          /\ df.rows[i]["Status"] = Overdue
          /\ df.rows[i]["Type"] = InvoiceText
          /\ ~IsNum(clean_age_column(df.rows[i]["Age"]))

Abs(x) == IF x < 0 THEN 0 - x ELSE x

\* the real-number product Balance Due * 'interst working' * 'per day
\* interst%' / 100 of an output row, in 1/1000000
ExactInterest(r) ==
    Val(r["Balance Due"]) * Val(r["interst working"]) * Val(r["per day interst%"])

\* round(x, 4) of Python: the nearest multiple of 1/10000, a tie to the even one
RoundHalfEven(x, unit) ==
    LET q == x \div unit
        r == x % unit
    IN  IF 2 * r < unit THEN q
        ELSE IF 2 * r > unit THEN q + 1
        ELSE IF q % 2 = 0 THEN q ELSE q + 1

\* C2 as stated: 'interest amount' equals round(Balance Due * 'interst
\* working' * 'per day interst%' / 100, 4) exactly, on every output row.
C2_ExactlyRounded ==
    Returned =>
        \A i \in 1..Len(OutRows) :
            Val(OutRows[i]["interest amount"]) = RoundHalfEven(ExactInterest(OutRows[i]), 100)

\* C2 as amended: 'interest amount' is a multiple of 0.0001 nearest to
\* Balance Due * 'interst working' * 'per day interst%' / 100 (within
\* 0.00005 of it), so it is that product rounded to 4 decimals whenever the
\* product is not exactly half-way between two multiples of 0.0001.
C2_NearestRounded ==
    Returned =>
        \A i \in 1..Len(OutRows) :
            /\ IsNum(OutRows[i]["interest amount"])
            /\ 2 * Abs(100 * Val(OutRows[i]["interest amount"]) - ExactInterest(OutRows[i]))
                   <= 100

\* a row whose product is not on the 1/10000 grid and was rounded up, and a
\* row with a non-zero amount
C2_Witness ==
    /\ Returned
    /\ \E i \in 1..Len(OutRows) :
          /\ ExactInterest(OutRows[i]) % 100 > 50
          /\ 100 * Val(OutRows[i]["interest amount"]) > ExactInterest(OutRows[i])
    /\ \E i \in 1..Len(OutRows) :
          /\ ExactInterest(OutRows[i]) % 100 = 0
          /\ Val(OutRows[i]["interest amount"]) > 0

RupeeExample ==
    MakeTable(REQUIRED_INPUT_COLUMNS,
              <<With(BaseRow, "Balance Due", <<"RUPEE", "1", "0", ",", "0", "0", "0">>)>>)

\* C3: the row {Overdue, Invoice, "260 Days", rupee sign "10,000"} under
\* due_days=150, working_days=31, daily_rate=0.06 yields one row with
\* Age=260, Balance Due=10000, 'working interst in %'=1.86 and
\* 'interest amount'=186.0000.
C3_Example ==
    (Returned /\ df = RupeeExample /\ config = DefaultConfig) =>
        /\ Len(OutRows) = 1
        /\ OutRows[1]["Age"] = Num(260)
        /\ OutRows[1]["Balance Due"] = Num(1000000)
        /\ OutRows[1]["working interst in %"] = Num(186)
        /\ OutRows[1]["interest amount"] = Num(1860000)

\* C4: when the raw table has the 13 required columns, no column is found
\* missing, and the columns of the table the call returns are exactly
\* FINAL_COLUMNS in order, with no row holding another cell.
C4_FinalColumns ==
    (pc = "process_excel" /\ Range(REQUIRED_INPUT_COLUMNS) \subseteq Range(df.columns)) =>
        /\ result.kind # "KeyError"
        /\ Returned =>
              /\ result.table.columns = FINAL_COLUMNS
              /\ \A i \in 1..Len(OutRows) : DOMAIN OutRows[i] \subseteq Range(FINAL_COLUMNS)

\* a call on a table with the required columns in another order, with
\* columns outside the schema, that returned rows
C4_Witness ==
    /\ Returned
    /\ Len(OutRows) > 0
    /\ df.columns[1] = "Notes"
    /\ "Sale Person" \in Range(df.columns)
    /\ SubSeq(df.columns, 3, 15) = Reverse(REQUIRED_INPUT_COLUMNS)

RawCells(r) == [c \in RawCellColumns |-> r[c]]

Ascending(rows) ==
    \A i, j \in 1..Len(rows) :
        i < j => ~Less(rows[j]["Customer Name"], rows[i]["Customer Name"])

\* the rows with the given customer name, in their order
RowsNamed(rows, name) ==
    LET Named(r) == r["Customer Name"] = name IN SelectSeq(rows, Named)

C6_OpeningBalance ==
    Returned =>
        LET IsOb(r) == r["Type"] = OpeningBalance
            RawOb(r) == r["Status"] = Overdue /\ r["Type"] = OpeningBalance
            outOb == SelectSeq(OutRows, IsOb)
            rawOb == SelectSeq(df.rows, RawOb)
        IN  /\ \A i \in 1..Len(outOb) : outOb[i]["Age"] = Num(config.ob_age)
            /\ Len(outOb) = IF config.ob_age > config.due_days THEN Len(rawOb) ELSE 0
            /\ \A i \in 1..Len(OutRows) :
                  ~IsOb(OutRows[i]) =>
                     \E j \in 1..Len(df.rows) :
                        /\ df.rows[j]["Type"] = OutRows[i]["Type"]
                        /\ df.rows[j]["Transaction#"] = OutRows[i]["Transaction#"]
                        /\ df.rows[j]["Customer Name"] = OutRows[i]["Customer Name"]
                        /\ clean_age_column(df.rows[j]["Age"]) = OutRows[i]["Age"]

\* an opening-balance row with an unparsable Age text kept with Age = ob_age,
\* beside an invoice that kept its own Age
C6_Witness ==
    /\ Returned
    /\ \E i \in 1..Len(df.rows) :
          /\ df.rows[i]["Type"] = OpeningBalance
          /\ ~IsNum(clean_age_column(df.rows[i]["Age"]))
    /\ \E i \in 1..Len(OutRows) :
          /\ OutRows[i]["Type"] = OpeningBalance
          /\ OutRows[i]["Age"] = Num(config.ob_age)
    /\ \E i \in 1..Len(OutRows) :
          /\ OutRows[i]["Type"] = InvoiceText
          /\ OutRows[i]["Age"] # Num(config.ob_age)

-----------------------------------------------------------------------------
(* data_verifier.py                                                        *)
(* The tables compared are read back from spreadsheets, so a cell carries  *)
(* its type first: <<"num", n>> (n in 1/100000), <<"str", text>> or the    *)
(* missing value <<"nan">>.                                                *)

NumCell(n) == <<"num", n>>

StrCell(s) == <<"str", s>>

NaNCell == <<"nan">>

\* an integer cell
IntegerCell(n) == <<"int", n>>

\* a Difference, in 1/10000
DiffCell(k) == <<"dif", k>>

NA == StrCell(<<"N", "/", "A">>)

RECURSIVE DigitsOf(_)
DigitsOf(n) == IF n < 10 THEN <<Digits[n + 1]>> ELSE DigitsOf(n \div 10) \o <<Digits[(n % 10) + 1]>>

RECURSIVE FractionDigits(_, _)
\* the k-digit fraction f without its trailing zeros
FractionDigits(f, k) ==
    IF k = 0 \/ f = 0 THEN <<>>
    ELSE <<Digits[(f \div Pow10(k - 1)) + 1]>> \o FractionDigits(f % Pow10(k - 1), k - 1)

\* str(float) of a number on the 1/100000 grid
FloatRepr(n) ==
    LET a == IF n < 0 THEN 0 - n ELSE n
        frac == FractionDigits(a % 100000, 5)
    IN  (IF n < 0 THEN <<"-">> ELSE <<>>)
        \o DigitsOf(a \div 100000) \o <<".">> \o (IF frac = <<>> THEN <<"0">> ELSE frac)

\* str(value) / astype(str)
PyStr(cell) ==
    CASE cell[1] = "str" -> cell[2]
      [] cell[1] = "num" -> FloatRepr(cell[2])
      [] cell[1] = "int" -> DigitsOf(cell[2])
      [] cell[1] = "nan" -> <<"n", "a", "n">>

\* pd.notna(value)
notna(cell) == cell[1] # "nan"

\* float(value): <<x>> in 1/100000, or <<>> when float() raises ValueError
float(cell) ==
    CASE cell[1] = "num" -> Num(cell[2])
      [] cell[1] = "int" -> Num(cell[2] * 100000)
      [] cell[1] = "str" -> to_numeric(StrStrip(cell[2]), 5)
      [] cell[1] = "nan" -> NaN

KeySeparator == <<"|", "|">>

RECURSIVE Join(_, _)
\* sep.join(parts)
Join(sep, parts) ==
    IF parts = <<>> THEN <<>>
    ELSE IF Len(parts) = 1 THEN parts[1]
    ELSE parts[1] \o sep \o Join(sep, Tail(parts))

\* df[key_columns].astype(str).agg("||".join, axis=1) on one row
composite_key(row, key_columns) ==
    Join(KeySeparator, [i \in 1..Len(key_columns) |-> PyStr(row[key_columns[i]])])

DefaultKeyColumns == <<"Customer Name", "Transaction#">>

DefaultCompareColumns == <<"interest amount", "Balance Due", "Age">>

Keys(t, key_columns) == {composite_key(t.rows[i], key_columns) : i \in 1..Len(t.rows)}

\* row.get(col, "N/A")
Get(row, col) == IF col \in DOMAIN row THEN row[col] ELSE NA

\* lines 110-120 and 124-134
MismatchRecord(kind, row) ==
    [c \in {"Mismatch Type", "Customer Name", "Transaction#", "Type", "Age", "Balance Due",
            "Interest Amount"} |->
        CASE c = "Mismatch Type"   -> kind
          [] c = "Interest Amount" -> Get(row, "interest amount")
          [] OTHER                 -> Get(row, c)]

\* mutant of get_detailed_mismatches: the missing rows are not reported
get_detailed_mismatches_extra_only(processed, expected, key_columns) ==
    LET bad == {i \in 1..Len(key_columns) :
                  \/ key_columns[i] \notin Range(processed.columns)
                  \/ key_columns[i] \notin Range(expected.columns)}
        OnlyInProcessed(r) ==
            composite_key(r, key_columns) \notin Keys(expected, key_columns)
        only_in_processed == SelectSeq(processed.rows, OnlyInProcessed)
        mismatch_records ==
            [i \in 1..Len(only_in_processed) |->
                MismatchRecord("Extra in Processed", only_in_processed[i])]
    IN  IF bad # {}
        THEN [kind |-> "error", column |-> key_columns[CHOOSE i \in bad : \A j \in bad : i <= j]]
        ELSE IF mismatch_records # <<>>
        THEN [kind |-> "records", records |-> mismatch_records]
        ELSE [kind |-> "message"]

\* get_detailed_mismatches(processed_df, expected_df, key_columns)
get_detailed_mismatches(processed, expected, key_columns) ==
    LET bad == {i \in 1..Len(key_columns) :
                  \/ key_columns[i] \notin Range(processed.columns)
                  \/ key_columns[i] \notin Range(expected.columns)}
        OnlyInProcessed(r) ==
            composite_key(r, key_columns) \notin Keys(expected, key_columns)
        OnlyInExpected(r) ==
            composite_key(r, key_columns) \notin Keys(processed, key_columns)
        only_in_processed == SelectSeq(processed.rows, OnlyInProcessed)
        only_in_expected == SelectSeq(expected.rows, OnlyInExpected)
        mismatch_records ==
            [i \in 1..Len(only_in_processed) |->
                MismatchRecord("Extra in Processed", only_in_processed[i])]
            \o [i \in 1..Len(only_in_expected) |->
                MismatchRecord("Missing in Processed", only_in_expected[i])]
    IN  IF bad # {}
        THEN [kind |-> "error", column |-> key_columns[CHOOSE i \in bad : \A j \in bad : i <= j]]
        ELSE IF mismatch_records # <<>>
        THEN [kind |-> "records", records |-> mismatch_records]
        ELSE [kind |-> "message"]

\* whether pandas holds the column as float64: it has cells, and they are all
\* numbers or missing values; otherwise the column is of dtype object
IsFloatColumn(t, col) ==
    /\ t.rows # <<>>
    /\ \A i \in 1..Len(t.rows) : t.rows[i][col][1] \in {"num", "nan"}

\* set(df["Customer Name"].unique()) for the table passed as `side`.  The
\* elements of a float64 column are made anew by each iteration of the
\* array, and a NaN made anew is equal to no other object, so it carries the
\* side it was made for; in an object column the missing value is the one
\* object np.nan, found in a set by its identity.
Customers(t, side) ==
    {IF IsFloatColumn(t, "Customer Name") /\ t.rows[i]["Customer Name"] = NaNCell
     THEN <<"nan", side>>
     ELSE t.rows[i]["Customer Name"] : i \in 1..Len(t.rows)}

\* the value None, or list(values) kept as a set
None == [is_none |-> TRUE, values |-> {}]

ListOf(values) == [is_none |-> FALSE, values |-> values]

\* compare_dataframes(processed_df, expected_df)
compare_dataframes(processed, expected) ==
    LET processed_cols == Range(processed.columns)
        expected_cols == Range(expected.columns)
        both == "Customer Name" \in processed_cols /\ "Customer Name" \in expected_cols
        processed_customers == Customers(processed, "processed")
        expected_customers == Customers(expected, "expected")
        extra_in_processed ==
            IF both THEN ListOf(processed_customers \ expected_customers) ELSE None
        missing_in_processed ==
            IF both THEN ListOf(expected_customers \ processed_customers) ELSE None
    IN  [kind |-> "comparison",
         row_comparison |->
            [processed_rows |-> Len(processed.rows),
             expected_rows  |-> Len(expected.rows),
             difference     |-> Len(processed.rows) - Len(expected.rows)],
         column_comparison |->
            [processed_columns    |-> processed.columns,
             expected_columns     |-> expected.columns,
             extra_in_processed   |-> processed_cols \ expected_cols,
             missing_in_processed |-> expected_cols \ processed_cols,
             columns_match        |-> processed_cols = expected_cols],
         extra_in_processed |-> extra_in_processed,
         missing_in_processed |-> missing_in_processed,
         summary |->
            [columns_match     |-> processed_cols = expected_cols,
             row_difference    |-> Len(processed.rows) - Len(expected.rows),
             extra_customers   |-> Cardinality(extra_in_processed.values),
             missing_customers |-> Cardinality(missing_in_processed.values)]]

\* line 174: list(common_keys)[:100]
MaxComparedKeys == 100

\* 0.01 in 1/100000
Tolerance == 1000

\* abs(proc_float - exp_float) > 0.01 for the difference d: decided by d,
\* except that a difference of exactly 0.01 is decided by the operands'
\* binary representation
ExceedsTolerance(d) ==
    IF Abs(d) > Tolerance THEN {TRUE}
    ELSE IF Abs(d) < Tolerance THEN {FALSE}
    ELSE {TRUE, FALSE}

ValueDiff(proc_row, col, proc_val, exp_val, difference) ==
    [c \in {"Customer Name", "Transaction#", "Column", "Processed Value", "Expected Value",
            "Difference"} |->
        CASE c = "Customer Name"   -> proc_row["Customer Name"]
          [] c = "Transaction#"    -> proc_row["Transaction#"]
          [] c = "Column"          -> col
          [] c = "Processed Value" -> proc_val
          [] c = "Expected Value"  -> exp_val
          [] c = "Difference"      -> difference]

\* mutant of compare_values: a missing value is compared as the text "nan"
compare_values_with_missing(proc_row, col, proc_val, exp_val) ==
    LET proc_float == float(proc_val)
        exp_float  == float(exp_val)
    IN  IF notna(proc_val) /\ notna(exp_val) /\ IsNum(proc_float) /\ IsNum(exp_float)
        THEN UNION {
               IF exceeds
               THEN {{ValueDiff(proc_row, col, proc_val, exp_val, DiffCell(rounded))} :
                       rounded \in RoundOutcomes(Val(proc_float) - Val(exp_float), 10)}
               ELSE {{}} :
               exceeds \in ExceedsTolerance(Val(proc_float) - Val(exp_float))}
        ELSE IF PyStr(proc_val) # PyStr(exp_val)
        THEN {{ValueDiff(proc_row, col, proc_val, exp_val, NA)}}
        ELSE {{}}

\* lines 180-211: the sets of records the comparison of one column of one
\* matched pair of rows can add; the Difference is in 1/10000
compare_values(proc_row, col, proc_val, exp_val) ==
    IF notna(proc_val) /\ notna(exp_val)
    THEN LET proc_float == float(proc_val)
             exp_float  == float(exp_val)
         IN  IF IsNum(proc_float) /\ IsNum(exp_float)
             THEN UNION {
                    IF exceeds
                    THEN {{ValueDiff(proc_row, col, proc_val, exp_val, DiffCell(rounded))} :
                            rounded \in RoundOutcomes(Val(proc_float) - Val(exp_float), 10)}
                    ELSE {{}} :
                    exceeds \in ExceedsTolerance(Val(proc_float) - Val(exp_float))}
             ELSE IF PyStr(proc_val) # PyStr(exp_val)
             THEN {{ValueDiff(proc_row, col, proc_val, exp_val, NA)}}
             ELSE {{}}
    ELSE {{}}

\* mutant of EvaluatedKeys: the limit of line 174 is not applied
EvaluatedKeysUncapped(common_keys) == {common_keys}

RECURSIVE EvaluatedKeys(_)
\* list(common_keys)[:100]: a set has no order of its own, so when there are
\* more than 100 keys any 100 of them can be the ones evaluated
EvaluatedKeys(common_keys) ==
    IF Cardinality(common_keys) <= MaxComparedKeys THEN {common_keys}
    ELSE UNION {EvaluatedKeys(common_keys \ {key}) : key \in common_keys}

\* df[df["_composite_key"] == key].iloc[0]
FirstRow(t, key, key_columns) ==
    t.rows[CHOOSE i \in 1..Len(t.rows) :
              /\ composite_key(t.rows[i], key_columns) = key
              /\ \A j \in 1..(i - 1) : composite_key(t.rows[j], key_columns) # key]

RECURSIVE UnionProduct(_)
\* for a set of sets of alternatives, every union of one alternative of each
UnionProduct(alts) ==
    IF alts = {} THEN {{}}
    ELSE LET a == CHOOSE x \in alts : TRUE
         IN  {one \cup rest : one \in a, rest \in UnionProduct(alts \ {a})}

\* every result get_value_comparison(processed_df, expected_df, compare_columns)
\* can return; the records are kept as a set
get_value_comparison(processed, expected, compare_columns) ==
    IF ~(Range(DefaultKeyColumns) \subseteq Range(processed.columns) \cap Range(expected.columns))
    THEN {KeyError}
    ELSE
    LET common_keys == Keys(processed, DefaultKeyColumns) \cap Keys(expected, DefaultKeyColumns)
        cols == {compare_columns[i] : i \in 1..Len(compare_columns)}
                   \cap Range(processed.columns) \cap Range(expected.columns)
        Compared(key, col) ==
            LET proc_row == FirstRow(processed, key, DefaultKeyColumns)
                exp_row  == FirstRow(expected, key, DefaultKeyColumns)
            IN  compare_values(proc_row, col, proc_row[col], exp_row[col])
        evaluated == EvaluatedKeys(common_keys)
    IN  IF common_keys = {} THEN {[kind |-> "message", message |-> "No matching rows"]}
        ELSE UNION {
               {IF comparisons # {}
                THEN [kind |-> "records", records |-> comparisons]
                ELSE [kind |-> "message", message |-> "All compared values match"] :
                  comparisons \in UnionProduct({Compared(key, col) : key \in ks, col \in cols})} :
               ks \in evaluated}

-----------------------------------------------------------------------------
(* The tables the reconciliation functions are called with                 *)

MaxRecRows == 2

RecColumns == <<"Customer Name", "Transaction#", "Type", "Age", "Balance Due", "interest amount">>

\* 100.00 in 1/100000
Hundred == 100 * 100000

RecRow(name, txn, interest) ==
    [c \in Range(RecColumns) |->
        CASE c = "Customer Name"   -> name
          [] c = "Transaction#"    -> txn
          [] c = "Type"            -> StrCell(InvoiceText)
          [] c = "Age"             -> NumCell(26000000)
          [] c = "Balance Due"     -> NumCell(Hundred)
          [] c = "interest amount" -> interest]

KeyRowKinds ==
    {RecRow(StrCell(<<"A">>), StrCell(<<"1">>), NumCell(Hundred)),
     RecRow(StrCell(<<"A">>), StrCell(<<"1">>), NumCell(Hundred + 5000)),
     RecRow(StrCell(<<"A">>), StrCell(<<"9">>), NumCell(Hundred)),
     RecRow(StrCell(<<"X">>), StrCell(<<"9">>), NumCell(Hundred)),
     RecRow(NaNCell, NumCell(900000), NumCell(Hundred))}

\* 100.0, 100.02, 100.01, 99.99, 100.00004, 100.02005, missing, texts
CellValues ==
    {NumCell(Hundred), NumCell(Hundred + 2000), NumCell(Hundred + 1000),
     NumCell(Hundred - 1000), NumCell(Hundred + 4), NumCell(Hundred + 2005), NaNCell,
     StrCell(<<"a", "b", "c">>), StrCell(<<"a", "b", "d">>),
     StrCell(<<" ", "1", "0", "0", ".", "0">>)}

RecLayouts ==
    {RecColumns,
     Without(RecColumns, {"Transaction#"}),
     Without(RecColumns, {"Age", "Type"}),
     Without(RecColumns, {"Customer Name", "interest amount"})}

\* a table of n rows with n different transaction numbers
ManyRows(n, interest) ==
    MakeTable(<<"Customer Name", "Transaction#", "interest amount">>,
              [i \in 1..n |-> RecRow(StrCell(<<"A">>), StrCell(DigitsOf(i)), interest)])

\* rows whose key values hold the separator or a part of it
SeparatorRows ==
    {RecRow(StrCell(<<"A", "|", "|", "B">>), StrCell(<<"C">>), NumCell(Hundred)),
     RecRow(StrCell(<<"A">>), StrCell(<<"B", "|", "|", "C">>), NumCell(Hundred + 5000)),
     RecRow(StrCell(<<"A", "|">>), StrCell(<<"B">>), NumCell(Hundred)),
     RecRow(StrCell(<<"A">>), StrCell(<<"|", "B">>), NumCell(Hundred))}

RecPair(p, e) == [processed |-> p, expected |-> e]

RecPairs ==
    {RecPair(MakeTable(RecColumns, p), MakeTable(RecColumns, e)) :
        p \in RowSeqs(KeyRowKinds, MaxRecRows), e \in RowSeqs(KeyRowKinds, MaxRecRows)}
    \cup {RecPair(MakeTable(RecColumns,
                            <<[RecRow(StrCell(<<"A">>), StrCell(<<"1">>), pv)
                                 EXCEPT !["Age"] = pa]>>),
                  MakeTable(RecColumns, <<RecRow(StrCell(<<"A">>), StrCell(<<"1">>), ev)>>)) :
            pv \in CellValues, ev \in CellValues,
            pa \in {NumCell(26000000), StrCell(Age260)}}
    \cup {RecPair(MakeTable(pl, rows), MakeTable(el, rows)) :
            pl \in RecLayouts, el \in RecLayouts,
            rows \in {<<RecRow(StrCell(<<"A">>), StrCell(<<"1">>), NumCell(Hundred))>>}}
    \cup {RecPair(ManyRows(n, NumCell(Hundred + 5000)), ManyRows(n, NumCell(Hundred))) :
            n \in {MaxComparedKeys, MaxComparedKeys + 1}}
    \cup {RecPair(MakeTable(RecColumns, <<p>>), MakeTable(RecColumns, <<e>>)) :
            p \in SeparatorRows, e \in SeparatorRows}

-----------------------------------------------------------------------------
(* Calls of the reconciliation functions                                   *)

InitReconcile ==
    /\ pc = "idle"
    /\ df = EmptyTable
    /\ config = DefaultConfig
    /\ result = NoResult
    /\ processed_df = EmptyTable
    /\ expected_df = EmptyTable
    /\ session_state = NoSession
    /\ shown = NothingShown

CallDetailedMismatches ==
    /\ pc = "idle"
    /\ \E pair \in RecPairs :
         /\ processed_df' = pair.processed
         /\ expected_df' = pair.expected
         /\ result' = get_detailed_mismatches(pair.processed, pair.expected, DefaultKeyColumns)
    /\ pc' = "get_detailed_mismatches"
    /\ UNCHANGED <<df, config, session_state, shown>>

CallCompareDataframes ==
    /\ pc = "idle"
    /\ \E pair \in RecPairs :
         /\ processed_df' = pair.processed
         /\ expected_df' = pair.expected
         /\ result' = compare_dataframes(pair.processed, pair.expected)
    /\ pc' = "compare_dataframes"
    /\ UNCHANGED <<df, config, session_state, shown>>

CallValueComparison ==
    /\ pc = "idle"
    /\ \E pair \in RecPairs :
         /\ processed_df' = pair.processed
         /\ expected_df' = pair.expected
         /\ result' \in get_value_comparison(pair.processed, pair.expected,
                                             DefaultCompareColumns)
    /\ pc' = "get_value_comparison"
    /\ UNCHANGED <<df, config, session_state, shown>>

ReturnReconcile ==
    /\ pc # "idle"
    /\ pc' = "idle"
    /\ result' = NoResult
    /\ processed_df' = EmptyTable
    /\ expected_df' = EmptyTable
    /\ UNCHANGED <<df, config, session_state, shown>>

NextReconcile ==
    CallCompareDataframes \/ CallDetailedMismatches \/ CallValueComparison \/ ReturnReconcile

SpecReconcile == InitReconcile /\ [][NextReconcile]_vars

-----------------------------------------------------------------------------
(* utils.py and app.py                                                     *)

\* mutant of validate_input_columns: the difference is taken the other way
validate_input_columns_swapped(t, required_columns) ==
    LET df_columns == Range(t.columns)
        required == Range(required_columns)
        missing == df_columns \ required
    IN  [is_valid |-> Cardinality(missing) = 0, missing |-> missing]

\* validate_input_columns(df, required_columns): (is_valid, missing_columns);
\* list(missing) has no order of its own and is kept as a set
validate_input_columns(t, required_columns) ==
    LET df_columns == Range(t.columns)
        required == Range(required_columns)
        missing == required \ df_columns
    IN  [is_valid |-> Cardinality(missing) = 0, missing |-> missing]

\* the files uploaded to the processing tab
UploadedTables ==
    LayoutTables
    \cup {MakeTable(REQUIRED_INPUT_COLUMNS, <<r>>) :
            r \in {With(BaseRow, "Status", <<"P", "a", "i", "d">>),
                   With(BaseRow, "Type", OpeningBalance),
                   With(BaseRow, "Balance Due", <<"1", ".", "2", "5">>)}}
    \cup {MakeTable(REQUIRED_INPUT_COLUMNS,
                    <<BaseRow, With(BaseRow, "Customer Name", IntCell(<<"1", "2">>))>>),
          MakeTable(REQUIRED_INPUT_COLUMNS,
                    <<With(BaseRow, "Customer Name", IntCell(<<"1", "2">>))>>)}

SidebarConfigs == {DefaultConfig, Config(260, 10, 31, 150)}

\* mutant of render_data_processing_tab: a refused upload clears the held
\* table
render_data_processing_tab_clearing(raw, cfg, session) ==
    LET v == validate_input_columns(raw, REQUIRED_INPUT_COLUMNS)
    IN  IF ~v.is_valid
        THEN {[session |-> NoSession,
               shown   |-> [kind |-> "error", missing |-> v.missing, transformed |-> FALSE],
               result  |-> NoResult]}
        ELSE {IF out.kind = "ok"
              THEN [session |-> [kind |-> "present", processed_data |-> out.table],
                    shown   |-> [kind |-> "processed", missing |-> {}, transformed |-> TRUE],
                    result  |-> out]
              ELSE [session |-> session,
                    shown   |-> [kind |-> "exception", missing |-> {}, transformed |-> TRUE],
                    result  |-> NoResult] :
                out \in process_excel(raw, cfg.due_days, cfg.daily_rate, cfg.working_days,
                                      cfg.ob_age)}

\* lines 85-155 of render_data_processing_tab for an uploaded file: what one
\* run leaves in st.session_state, displays and returns.  "transformed"
\* records whether the run reached the call of process_excel (line 110).
render_data_processing_tab(raw, cfg, session) ==
    LET v == validate_input_columns(raw, REQUIRED_INPUT_COLUMNS)
    IN  IF ~v.is_valid
        THEN {[session |-> session,
               shown   |-> [kind |-> "error", missing |-> v.missing, transformed |-> FALSE],
               result  |-> NoResult]}
        ELSE {IF out.kind = "ok"
              THEN [session |-> [kind |-> "present", processed_data |-> out.table],
                    shown   |-> [kind |-> "processed", missing |-> {}, transformed |-> TRUE],
                    result  |-> out]
              ELSE [session |-> session,
                    shown   |-> [kind |-> "exception", missing |-> {}, transformed |-> TRUE],
                    result  |-> NoResult] :
                out \in process_excel(raw, cfg.due_days, cfg.daily_rate, cfg.working_days,
                                      cfg.ob_age)}

\* the factor from the unit a column of the processed table is counted in
\* to 1/100000
UnitFactor(col) ==
    CASE col \in {"Age", "Due days", "interst working", "Previous interst"} -> 100000
      [] col \in {"Amount", "Balance Due", "per day interst%", "working interst in %"} -> 1000
      [] col = "interest amount" -> 10

NumericColumns ==
    {"Age", "Due days", "interst working", "Previous interst", "Amount", "Balance Due",
     "per day interst%", "working interst in %", "interest amount"}

\* the cell of the held table as the functions of data_verifier.py read it
AsCell(col, v) ==
    IF col \in NumericColumns
    THEN IF IsNum(v) THEN NumCell(Val(v) * UnitFactor(col)) ELSE NaNCell
    ELSE IF IsIntCell(v) THEN IntegerCell(DigitsValue(Tail(v)))
    ELSE StrCell(v)

\* line 197: processed_df = st.session_state["processed_data"]
HeldTable(session) ==
    LET t == session.processed_data
    IN  [columns |-> t.columns,
         rows    |-> [i \in 1..Len(t.rows) |->
                        [c \in DOMAIN t.rows[i] |-> AsCell(c, t.rows[i][c])]]]

NoFile == [present |-> FALSE, table |-> EmptyTable]

File(t) == [present |-> TRUE, table |-> t]

\* render_data_verification_tab(): what the tab displays, and the tables the
\* functions of data_verifier.py are called with (empty when none is called)
render_data_verification_tab(session, expected_file) ==
    IF session.kind # "present"
    THEN {[shown |-> [kind |-> "warning"], processed |-> EmptyTable, expected |-> EmptyTable]}
    ELSE IF ~expected_file.present
    THEN {[shown |-> [kind |-> "info"], processed |-> EmptyTable, expected |-> EmptyTable]}
    ELSE LET processed == HeldTable(session)
             expected == expected_file.table
             results == compare_dataframes(processed, expected)
             mismatches == get_detailed_mismatches(processed, expected, DefaultKeyColumns)
         IN  {[shown |-> [kind       |-> "compared",
                          summary    |-> results.summary,
                          mismatches |-> mismatches.kind,
                          values     |-> value_comp.kind],
               processed |-> processed,
               expected  |-> expected] :
                value_comp \in get_value_comparison(processed, expected,
                                                    DefaultCompareColumns)}

\* the files uploaded to the verification tab
ExpectedFiles ==
    {NoFile,
     File(MakeTable(RecColumns,
                    <<RecRow(StrCell(<<"A">>), StrCell(<<"T", "1">>), NumCell(660 * 100000))>>)),
     File(MakeTable(Without(RecColumns, {"Transaction#"}),
                    <<RecRow(StrCell(<<"B">>), StrCell(<<"T", "1">>), NumCell(Hundred))>>))}

InitHost ==
    /\ pc = "host"
    /\ df = EmptyTable
    /\ config = DefaultConfig
    /\ result = NoResult
    /\ processed_df = EmptyTable
    /\ expected_df = EmptyTable
    /\ session_state = NoSession
    /\ shown = NothingShown

\* a run of main() with a file in the processing tab's uploader: the
\* processing tab, then the verification tab
RunWithUpload ==
    /\ pc = "host"
    /\ \E raw \in UploadedTables, cfg \in SidebarConfigs, expected_file \in ExpectedFiles :
         \E after \in render_data_processing_tab(raw, cfg, session_state) :
            \E verification \in render_data_verification_tab(after.session, expected_file) :
               /\ df' = raw
               /\ config' = cfg
               /\ session_state' = after.session
               /\ shown' = [verification |-> verification.shown] @@ after.shown
               /\ result' = after.result
               /\ processed_df' = verification.processed
               /\ expected_df' = verification.expected
    /\ UNCHANGED pc

\* a run of main() with no file in the processing tab's uploader (lines
\* 157-179), then the verification tab
RunWithoutUpload ==
    /\ pc = "host"
    /\ \E expected_file \in ExpectedFiles :
         \E verification \in render_data_verification_tab(session_state, expected_file) :
            /\ shown' = [verification |-> verification.shown] @@ NothingShown
            /\ processed_df' = verification.processed
            /\ expected_df' = verification.expected
    /\ df' = EmptyTable
    /\ result' = NoResult
    /\ UNCHANGED <<pc, config, session_state>>

NextHost == RunWithUpload \/ RunWithoutUpload

SpecHost == InitHost /\ [][NextHost]_vars

-----------------------------------------------------------------------------
(* Claims about the validation (checked under SpecHost)                    *)

MissingRequired == {c \in Range(REQUIRED_INPUT_COLUMNS) : c \notin Range(df.columns)}

Uploaded == pc = "host" /\ shown.kind # "info"

\* C7: when a required column is absent the validation fails and names
\* exactly the missing required columns (it succeeds iff none is missing),
\* and the host does not run the transformation on that table.
C7_Validation ==
    Uploaded =>
        /\ shown.kind = "error" <=> MissingRequired # {}
        /\ shown.missing = MissingRequired
        /\ MissingRequired # {} => (~shown.transformed /\ result = NoResult)
        /\ MissingRequired = {} => shown.transformed

\* an upload without Status and Region, refused, after an upload that was
\* processed
C7_Witness ==
    /\ Uploaded
    /\ shown.kind = "error"
    /\ shown.missing = {"Status", "Region"}
    /\ session_state.kind = "present"

-----------------------------------------------------------------------------
(* Claims about data_verifier.py (checked under SpecReconcile)             *)

KeyOf(r) == composite_key(r, DefaultKeyColumns)

BothHaveKeys ==
    Range(DefaultKeyColumns) \subseteq Range(processed_df.columns) \cap Range(expected_df.columns)

Count(rows, P(_)) == Len(SelectSeq(rows, P))

SameKeyCells(a, b) ==
    a["Customer Name"] = b["Customer Name"] /\ a["Transaction#"] = b["Transaction#"]

\* C8: get_detailed_mismatches reports one "Extra in Processed" record per
\* processed row whose composite key is in no expected row, one "Missing in
\* Processed" record per expected row whose key is in no processed row,
\* nothing for a key that is on both sides, and no record at all when every
\* key is on both sides.
C8_KeyPresence ==
    (pc = "get_detailed_mismatches" /\ BothHaveKeys) =>
        LET recs == IF result.kind = "records" THEN result.records ELSE <<>>
            pkeys == Keys(processed_df, DefaultKeyColumns)
            ekeys == Keys(expected_df, DefaultKeyColumns)
            ExtraRow(r) == KeyOf(r) \notin ekeys
            MissingRow(r) == KeyOf(r) \notin pkeys
            IsExtra(m) == m["Mismatch Type"] = "Extra in Processed"
            IsMissing(m) == m["Mismatch Type"] = "Missing in Processed"
        IN  /\ result.kind \in {"records", "message"}
            /\ Count(recs, IsExtra) = Count(processed_df.rows, ExtraRow)
            /\ Count(recs, IsMissing) = Count(expected_df.rows, MissingRow)
            /\ Len(recs) = Count(recs, IsExtra) + Count(recs, IsMissing)
            /\ \A i \in 1..Len(processed_df.rows) :
                  ExtraRow(processed_df.rows[i]) =>
                     \E k \in 1..Len(recs) :
                        IsExtra(recs[k]) /\ SameKeyCells(recs[k], processed_df.rows[i])
            /\ \A i \in 1..Len(expected_df.rows) :
                  MissingRow(expected_df.rows[i]) =>
                     \E k \in 1..Len(recs) :
                        IsMissing(recs[k]) /\ SameKeyCells(recs[k], expected_df.rows[i])
            /\ \A k \in 1..Len(recs) : KeyOf(recs[k]) \notin pkeys \cap ekeys
            /\ (pkeys = ekeys => result.kind = "message")

\* the same single row on both sides and the row {X, 9} in expected only:
\* exactly one record, "Missing in Processed", for customer X
C8_Witness ==
    /\ pc = "get_detailed_mismatches"
    /\ Len(processed_df.rows) = 1
    /\ expected_df.rows =
          processed_df.rows \o <<RecRow(StrCell(<<"X">>), StrCell(<<"9">>), NumCell(Hundred))>>
    /\ result.kind = "records"
    /\ Len(result.records) = 1
    /\ result.records[1]["Mismatch Type"] = "Missing in Processed"
    /\ result.records[1]["Customer Name"] = StrCell(<<"X">>)

ValueRecords == IF result.kind = "records" THEN result.records ELSE {}

ComparedColumns ==
    Range(DefaultCompareColumns) \cap Range(processed_df.columns) \cap Range(expected_df.columns)

CommonKeys == Keys(processed_df, DefaultKeyColumns) \cap Keys(expected_df, DefaultKeyColumns)

ProcessedValue(key, col) == FirstRow(processed_df, key, DefaultKeyColumns)[col]

ExpectedValue(key, col) == FirstRow(expected_df, key, DefaultKeyColumns)[col]

\* the ValueDiff records for the column col of the rows matched by key
Reported(key, col) ==
    {rec \in ValueRecords : KeyOf(rec) = key /\ rec["Column"] = col}

IsNumeric(cell) == notna(cell) /\ IsNum(float(cell))

ValueCompared == pc = "get_value_comparison" /\ result.kind \in {"records", "message"}

\* C9: for a matched key and a compared column whose two values are present
\* and numeric, a ValueDiff is reported if and only if |processed - expected|
\* > 0.01 (a difference of exactly 0.01 or less is not reported), and its
\* Difference is processed - expected rounded to 4 decimals.  (Stated for
\* the calls in which every matched key is evaluated.)
C9_Tolerance ==
    (ValueCompared /\ Cardinality(CommonKeys) <= MaxComparedKeys) =>
        \A key \in CommonKeys, col \in ComparedColumns :
            LET p == ProcessedValue(key, col)
                e == ExpectedValue(key, col)
                d == Val(float(p)) - Val(float(e))
            IN  (IsNumeric(p) /\ IsNumeric(e)) =>
                   /\ Reported(key, col) # {} <=> Abs(d) > Tolerance
                   /\ \A rec \in Reported(key, col) :
                         /\ rec["Difference"][1] = "dif"
                         /\ 2 * Abs(10 * rec["Difference"][2] - d) <= 10

\* C10 as stated: when either value is non-numeric, a missing value
\* included, a ValueDiff is reported if and only if the two string forms
\* differ, and its Difference is "N/A".
C10_NonNumeric ==
    ValueCompared =>
        \A key \in CommonKeys, col \in ComparedColumns :
            LET p == ProcessedValue(key, col)
                e == ExpectedValue(key, col)
            IN  ~(IsNumeric(p) /\ IsNumeric(e)) =>
                   /\ Reported(key, col) # {} <=> PyStr(p) # PyStr(e)
                   /\ \A rec \in Reported(key, col) : rec["Difference"] = NA

\* C10 as amended: when both values are present and at least one of them is
\* non-numeric, a ValueDiff is reported if and only if the two string forms
\* differ, and its Difference is "N/A"; when either value is missing nothing
\* is reported for that column.
C10_NonNumericPresent ==
    ValueCompared =>
        \A key \in CommonKeys, col \in ComparedColumns :
            LET p == ProcessedValue(key, col)
                e == ExpectedValue(key, col)
            IN  /\ (notna(p) /\ notna(e) /\ ~(IsNumeric(p) /\ IsNumeric(e))) =>
                      /\ Reported(key, col) # {} <=> PyStr(p) # PyStr(e)
                      /\ \A rec \in Reported(key, col) : rec["Difference"] = NA
                /\ (~notna(p) \/ ~notna(e)) => Reported(key, col) = {}

\* a comparison that reported a text against a number with Difference "N/A"
\* and reported nothing for a column missing on one side only
C10_Witness ==
    /\ ValueCompared
    /\ {"Age", "interest amount"} \subseteq ComparedColumns
    /\ \E key \in CommonKeys :
          /\ ProcessedValue(key, "Age") = StrCell(Age260)
          /\ IsNumeric(ExpectedValue(key, "Age"))
          /\ \E rec \in Reported(key, "Age") : rec["Difference"] = NA
          /\ ~notna(ProcessedValue(key, "interest amount"))
          /\ IsNumeric(ExpectedValue(key, "interest amount"))
          /\ Reported(key, "interest amount") = {}

\* the composite keys that have a ValueDiff
ReportedKeys == {KeyOf(rec) : rec \in ValueRecords}

\* the first rows of the key differ in the column: two numbers by more than
\* 0.01, or two present values, not both numeric, of different string forms
ValueMismatch(key, col) ==
    LET p == ProcessedValue(key, col)
        e == ExpectedValue(key, col)
    IN  IF IsNumeric(p) /\ IsNumeric(e)
        THEN Abs(Val(float(p)) - Val(float(e))) > Tolerance
        ELSE notna(p) /\ notna(e) /\ PyStr(p) # PyStr(e)

\* C11: every ValueDiff of get_value_comparison carries a composite key that
\* is in both tables; the ValueDiffs of one call concern at most 100 keys;
\* and when at most 100 keys are matched, every matched key whose rows
\* differ in a compared column has a ValueDiff for that column.
C11_MatchedKeysCapped ==
    ValueCompared =>
        /\ ReportedKeys \subseteq CommonKeys
        /\ Cardinality(ReportedKeys) <= MaxComparedKeys
        /\ Cardinality(CommonKeys) <= MaxComparedKeys =>
              \A key \in CommonKeys, col \in ComparedColumns :
                 ValueMismatch(key, col) => Reported(key, col) # {}

\* 101 matched keys that all differ: exactly 100 of them are reported
C11_Witness ==
    /\ ValueCompared
    /\ Cardinality(CommonKeys) = MaxComparedKeys + 1
    /\ \A key \in CommonKeys : ValueMismatch(key, "interest amount")
    /\ Cardinality(ReportedKeys) = MaxComparedKeys

\* C12: compare_dataframes called with one table on both sides returns row
\* difference 0, columns_match true, no extra and no missing column, and no
\* extra and no missing customer (the two lists are empty, or None when the
\* table has no Customer Name column).
C12_SameTable ==
    (pc = "compare_dataframes" /\ processed_df = expected_df) =>
        /\ result.row_comparison.difference = 0
        /\ result.summary.row_difference = 0
        /\ result.column_comparison.columns_match
        /\ result.summary.columns_match
        /\ result.column_comparison.extra_in_processed = {}
        /\ result.column_comparison.missing_in_processed = {}
        /\ result.extra_in_processed.values = {}
        /\ result.missing_in_processed.values = {}
        /\ result.summary.extra_customers = 0
        /\ result.summary.missing_customers = 0

\* the two rows have the same key values as strings
SameKeyStrings(a, b) ==
    \A c \in Range(DefaultKeyColumns) : PyStr(a[c]) = PyStr(b[c])

\* C15: a processed row and an expected row have the same composite key
\* only if their Customer Name and their Transaction# are equal as strings,
\* a key value that holds "||" included: get_detailed_mismatches reports as
\* "Extra in Processed" every processed row that no expected row equals in
\* both, and get_value_comparison reports no ValueDiff for such a row.
C15_KeyInjective ==
    (pc \in {"get_detailed_mismatches", "get_value_comparison"} /\ BothHaveKeys) =>
        LET Unmatched(p) ==
                \A j \in 1..Len(expected_df.rows) : ~SameKeyStrings(p, expected_df.rows[j])
        IN  /\ \A i \in 1..Len(processed_df.rows), j \in 1..Len(expected_df.rows) :
                  KeyOf(processed_df.rows[i]) = KeyOf(expected_df.rows[j]) =>
                     SameKeyStrings(processed_df.rows[i], expected_df.rows[j])
            /\ \A i \in 1..Len(processed_df.rows) :
                  Unmatched(processed_df.rows[i]) =>
                     IF pc = "get_detailed_mismatches"
                     THEN /\ result.kind = "records"
                          /\ \E k \in 1..Len(result.records) :
                                /\ result.records[k]["Mismatch Type"] = "Extra in Processed"
                                /\ SameKeyCells(result.records[k], processed_df.rows[i])
                     ELSE \A rec \in ValueRecords : ~SameKeyCells(rec, processed_df.rows[i])

-----------------------------------------------------------------------------
(* Further claims about process_excel (checked under SpecTransform)        *)

Max(a, b) == IF a >= b THEN a ELSE b

\* C13: in every row of the returned table 'Previous interst' is at least 0,
\* is max(0, Age - 'Due days' - 'interst working'), and is 0 whenever
\* 'interst working' >= Age - 'Due days'.
C13_PreviousInterest ==
    Returned =>
        \A i \in 1..Len(OutRows) :
            LET r == OutRows[i]
                age == Val(r["Age"])
                due == Val(r["Due days"])
                working == Val(r["interst working"])
                previous == Val(r["Previous interst"])
            IN  /\ IsNum(r["Age"]) /\ IsNum(r["Due days"])
                /\ IsNum(r["interst working"]) /\ IsNum(r["Previous interst"])
                /\ previous >= 0
                /\ previous = Max(0, age - due - working)
                /\ working >= age - due => previous = 0

\* a returned row that is past the threshold by a positive number of days,
\* all of them working days, with no previous days
C13_Witness ==
    /\ Returned
    /\ \E i \in 1..Len(OutRows) :
          /\ Val(OutRows[i]["interst working"]) > 0
          /\ Val(OutRows[i]["interst working"])
                = Val(OutRows[i]["Age"]) - Val(OutRows[i]["Due days"])
          /\ OutRows[i]["Previous interst"] = Num(0)

\* values of working_days: three of the sidebar's range 1..31 and one that
\* only a direct call can pass
WorkingDaysValues == {1, 5, DEFAULT_INTEREST_WORKING_DAYS, 400}

-----------------------------------------------------------------------------
(* Claims about the session (checked under SpecHost)                       *)

\* a run of main() that ended with process_excel having returned a table
Succeeded == result.kind = "ok"

HeldIs(session, table) == session = [kind |-> "present", processed_data |-> table]

\* after a run: the data_verifier.py functions were called only with a held
\* table, and with that table
VerifiedAgainstHeld ==
    shown # NothingShown =>
        /\ session_state.kind # "present" => shown.verification.kind = "warning"
        /\ shown.verification.kind = "compared" =>
              /\ session_state.kind = "present"
              /\ processed_df = HeldTable(session_state)

\* C14: in a host session the held table is absent until a run succeeds; a
\* run in which process_excel returns a table leaves that table held, and
\* any other run (upload refused by the validation, transformation raising,
\* no upload) leaves the held table as it was; the verification tab calls
\* the Reconciler only when a table is held, and with the held table.
C14_HeldTable ==
    /\ [](session_state.kind \in {"absent", "present"} /\ VerifiedAgainstHeld)
    /\ [][IF Succeeded' THEN HeldIs(session_state', result'.table)
          ELSE session_state' = session_state]_vars

\* an upload whose transformation raised, after a run that succeeded: the
\* verification tab compared the expected file with the table of that run
C14_Witness ==
    /\ pc = "host"
    /\ shown.kind = "exception"
    /\ Len(df.rows) = 2
    /\ session_state.kind = "present"
    /\ Len(session_state.processed_data.rows) = 1
    /\ shown.verification.kind = "compared"
    /\ processed_df = HeldTable(session_state)

====
